---- MODULE Spec2Model ----
(***************************************************************************)
(* A state-machine model of parseContent (src/inputParser.ts) and of the   *)
(* functions it calls: getTableColumns, generateSectionRowFromColumnData   *)
(* and cellStyles.                                                         *)
(*                                                                         *)
(* One run of the machine is one call of parseContent.  The inputs (the    *)
(* settings, the style options, the hooks, the scale factor) are chosen in *)
(* the initial state; every action is one step of the function: one        *)
(* iteration of one of its loops, or the code between two loops.           *)
(*                                                                         *)
(* JavaScript values are modelled as follows.                              *)
(*  - A property name is a string: the number i used as a property name    *)
(*    is ToString(i), as in JavaScript.  A missing key and the empty       *)
(*    string (both falsy) are "".                                          *)
(*  - An object whose key order matters (a raw row) is a sequence of       *)
(*    [key, value] entries; an array is such an object with the keys       *)
(*    "0", "1", ... and isArray = TRUE.                                    *)
(*  - A style object is a function from the property names it sets to      *)
(*    tagged values Num(n) / Str(s).                                       *)
(*  - A text is the record of its measurements [w, lw]: the width of the   *)
(*    text and of its longest word, as getStringWidth reports them.        *)
(*  - The cells of a row are objects shared by two property names          *)
(*    (dataKey and index): row.cells maps a property name to the index of  *)
(*    the column the cell was created at, row.objects maps that index to   *)
(*    the cell.                                                            *)
(***************************************************************************)
EXTENDS Integers, Sequences, FiniteSets, TLC

VARIABLES
  settings,               \* the UserOptions given to parseContent
  table,                  \* the Table under construction
  scaleFactor,            \* state().scaleFactor()
  pc,                     \* the position in parseContent
  sectionName,            \* the section of the current row
  rowIndex,               \* index of the current row (in its section, or in allRows())
  colPos,                 \* position (1-based) in table.columns of the current column
  rowSpansLeftForColumn,  \* the span ledger of the current section
  skippedRowForRowSpans,
  colSpansAdded,
  columnSpansLeft,
  hookCalls               \* history: how often callCellHooks ran for each cell

vars == <<settings, table, scaleFactor, pc, sectionName, rowIndex, colPos,
          rowSpansLeftForColumn, skippedRowForRowSpans, colSpansAdded,
          columnSpansLeft, hookCalls>>

(***************************************************************************)
(* Bounds of the model.                                                    *)
(***************************************************************************)
MaxCols == 3
MaxRows == 2

Sections == <<"head", "body", "foot">>

(***************************************************************************)
(* Values.                                                                 *)
(***************************************************************************)
Num(n) == [type |-> "number", value |-> n]
Str(s) == [type |-> "string", value |-> s]

EmptyStyles == [p \in {} |-> Num(0)]

\* Object.assign (polyfills.assign) of two style objects: a shallow merge.
assign(target, source) ==
  [p \in (DOMAIN target) \cup (DOMAIN source) |->
      IF p \in DOMAIN source THEN source[p] ELSE target[p]]

RECURSIVE assignAll(_, _)
assignAll(target, sources) ==
  IF sources = <<>> THEN target
  ELSE assignAll(assign(target, Head(sources)), Tail(sources))

\* Raw cell values (CellType): undefined, a scalar, or an object
\* {content, colSpan, rowSpan, styles}; a span of 0 stands for a missing
\* (or zero: equally falsy) colSpan / rowSpan.  A synthesised head row may
\* also hold a column descriptor as its cell value.
Undefined == [kind |-> "undefined"]
Scalar(t) == [kind |-> "scalar", content |-> t]
CellDef(t, cs, rs, st) ==
  [kind |-> "object", content |-> t, colSpan |-> cs, rowSpan |-> rs, styles |-> st]

IsObject(v) == v.kind \in {"object", "column"}
Truthy(v) == v.kind # "undefined"

\* Column descriptors (ColumnOption).
ColumnDef(dataKey, key, header, footer) ==
  [kind |-> "column", dataKey |-> dataKey, key |-> key,
   header |-> header, footer |-> footer]

\* Raw rows.
ArrayRow(cells) ==
  [isArray |-> TRUE,
   entries |-> [i \in 1..Len(cells) |-> [key |-> ToString(i - 1), value |-> cells[i]]]]
ObjectRow(entries) == [isArray |-> FALSE, entries |-> entries]

ObjectKeys(row) == [i \in 1..Len(row.entries) |-> row.entries[i].key]

\* row[key]
Get(row, key) ==
  IF \E i \in 1..Len(row.entries) : row.entries[i].key = key
  THEN row.entries[CHOOSE i \in 1..Len(row.entries) : row.entries[i].key = key].value
  ELSE Undefined

\* row[key] = value
Put(row, key, value) ==
  IF \E i \in 1..Len(row.entries) : row.entries[i].key = key
  THEN [row EXCEPT !.entries[CHOOSE i \in 1..Len(row.entries) : row.entries[i].key = key].value = value]
  ELSE [row EXCEPT !.entries = Append(@, [key |-> key, value |-> value])]

(***************************************************************************)
(* The model classes (models.ts).                                          *)
(***************************************************************************)
Column(dataKey, raw, index) ==
  [dataKey |-> dataKey, raw |-> raw, index |-> index,
   wrappedWidth |-> 0, minReadableWidth |-> 0, minWidth |-> 0]

Row(raw, index, section) ==
  [raw |-> raw, index |-> index, section |-> section,
   cells |-> [k \in {} |-> 0], objects |-> [i \in {} |-> 0]]

NoText == [w |-> 0, lw |-> 0]

Cell(raw, styles, section) ==
  [raw |-> raw, section |-> section,
   rowSpan |-> IF raw.kind = "object" /\ raw.rowSpan # 0 THEN raw.rowSpan ELSE 1,
   colSpan |-> IF raw.kind = "object" /\ raw.colSpan # 0 THEN raw.colSpan ELSE 1,
   styles |-> assign(styles, IF raw.kind = "object" THEN raw.styles ELSE EmptyStyles),
   text |-> [isArray |-> TRUE,
             measure |-> IF raw.kind \in {"object", "scalar"} THEN raw.content ELSE NoText],
   contentWidth |-> 0, minReadableWidth |-> 0, minWidth |-> 0, wrappedWidth |-> 0]

\* row.cells[name] = cell, for a cell created at column index `index`
SetCell(row, name, index, cell) ==
  [row EXCEPT !.cells = [k \in (DOMAIN @) \cup {name} |-> IF k = name THEN index ELSE @[k]],
              !.objects = [i \in (DOMAIN @) \cup {index} |-> IF i = index THEN cell ELSE @[i]]]

HasCell(row, name) == name \in DOMAIN row.cells
\* row.cells[name], where HasCell(row, name)
CellOf(row, name) == row.objects[row.cells[name]]

(***************************************************************************)
(* getTableColumns                                                         *)
(***************************************************************************)
ColumnKey(input, index) ==
  IF input.dataKey # "" THEN input.dataKey
  ELSE IF input.key # "" THEN input.key
  ELSE ToString(index)

FirstRow(s) ==
  IF Len(s.head) > 0 THEN s.head[1]
  ELSE IF Len(s.body) > 0 THEN s.body[1]
  ELSE IF Len(s.foot) > 0 THEN s.foot[1]
  ELSE ArrayRow(<<>>)

\* the columns pushed for one key of the first row
RECURSIVE ExpandKey(_, _, _, _, _)
ExpandKey(columns, firstRow, key, i, colSpan) ==
  IF i >= colSpan THEN columns
  ELSE LET id == IF firstRow.isArray THEN ToString(Len(columns))
                 ELSE IF i > 0 THEN key \o "_" \o ToString(i) ELSE key
       IN ExpandKey(Append(columns, Column(id, id, Len(columns))),
                    firstRow, key, i + 1, colSpan)

RECURSIVE InferColumns(_, _, _)
InferColumns(columns, firstRow, keys) ==
  IF keys = <<>> THEN columns
  ELSE LET key == Head(keys)
           v == Get(firstRow, key)
           colSpan == IF v.kind = "object" /\ v.colSpan # 0 THEN v.colSpan ELSE 1
       IN InferColumns(ExpandKey(columns, firstRow, key, 0, colSpan), firstRow, Tail(keys))

getTableColumns(s) ==
  IF s.hasColumns
  THEN [i \in 1..Len(s.columns) |->
          Column(ColumnKey(s.columns[i], i - 1), s.columns[i], i - 1)]
  ELSE LET firstRow == FirstRow(s)
       IN InferColumns(<<>>, firstRow, ObjectKeys(firstRow))

(***************************************************************************)
(* Configuration (config.ts): the default styles and the themes, reduced   *)
(* to the style properties the model carries.                              *)
(***************************************************************************)
StyleProps == {"cellWidth", "minCellWidth", "cellPadding", "fillColor"}

DefaultMinCellWidth == 10

defaultStyles ==
  [cellWidth |-> Str("auto"), minCellWidth |-> Num(0),
   cellPadding |-> Num(5 \div scaleFactor), fillColor |-> Str("false")]

ThemeFill(name, part) == Str(name \o "." \o part)

Themes ==
  [striped |-> [table |-> [fillColor |-> ThemeFill("striped", "table")],
                head |-> [fillColor |-> ThemeFill("striped", "head")],
                body |-> EmptyStyles,
                foot |-> [fillColor |-> ThemeFill("striped", "foot")],
                alternateRow |-> [fillColor |-> ThemeFill("striped", "alternateRow")]],
   grid |->    [table |-> [fillColor |-> ThemeFill("grid", "table")],
                head |-> [fillColor |-> ThemeFill("grid", "head")],
                body |-> EmptyStyles,
                foot |-> [fillColor |-> ThemeFill("grid", "foot")],
                alternateRow |-> EmptyStyles],
   plain |->   [table |-> EmptyStyles, head |-> EmptyStyles, body |-> EmptyStyles,
                foot |-> EmptyStyles, alternateRow |-> EmptyStyles]]

getTheme(name) == Themes[name]

(***************************************************************************)
(* cellStyles                                                              *)
(***************************************************************************)
\* table.styles.columnStyles[column.dataKey] || table.styles.columnStyles[column.index] || {}
ColumnStylesOf(column) ==
  LET all == table.styles.columnStyles
  IN IF column.dataKey \in DOMAIN all THEN all[column.dataKey]
     ELSE IF ToString(column.index) \in DOMAIN all THEN all[ToString(column.index)]
     ELSE EmptyStyles

\* (mutant) the alternate-row styles are merged after the column styles
cellStylesRowLast(section, column, index) ==
  LET theme == getTheme(settings.theme)
      otherStyles == <<theme.table, theme[section], table.styles.styles,
                       table.styles[section \o "Styles"]>>
      columnStyles == ColumnStylesOf(column)
      colStyles == IF section = "body" THEN columnStyles ELSE EmptyStyles
      rowStyles == IF section = "body" /\ index % 2 = 0
                   THEN assignAll(EmptyStyles, <<theme.alternateRow, table.styles.alternateRowStyles>>)
                   ELSE EmptyStyles
  IN assignAll(defaultStyles, otherStyles \o <<colStyles, rowStyles>>)

cellStyles(section, column, index) ==
  LET theme == getTheme(settings.theme)
      otherStyles == <<theme.table, theme[section], table.styles.styles,
                       table.styles[section \o "Styles"]>>
      columnStyles == ColumnStylesOf(column)
      colStyles == IF section = "body" THEN columnStyles ELSE EmptyStyles
      rowStyles == IF section = "body" /\ index % 2 = 0
                   THEN assignAll(EmptyStyles, <<theme.alternateRow, table.styles.alternateRowStyles>>)
                   ELSE EmptyStyles
  IN assignAll(defaultStyles, otherStyles \o <<rowStyles, colStyles>>)

(***************************************************************************)
(* generateSectionRowFromColumnData                                        *)
(***************************************************************************)
Null == [kind |-> "null"]

\* (mutant) a head value is taken from the header of the column alone
SectionValueFromHeader(columnData, section) ==
  IF section = "head"
  THEN IF Truthy(columnData) /\ Truthy(columnData.header) THEN columnData.header ELSE Undefined
  ELSE IF section = "foot" /\ Truthy(columnData.footer) THEN columnData.footer
  ELSE Undefined

\* the value of a column in the generated row of a section, undefined for none
SectionValue(columnData, section) ==
  IF section = "head"
  THEN IF Truthy(columnData) /\ Truthy(columnData.header) THEN columnData.header ELSE columnData
  ELSE IF section = "foot" /\ Truthy(columnData.footer) THEN columnData.footer
  ELSE Undefined

RECURSIVE SectionRowFrom(_, _, _)
SectionRowFrom(sectionRow, columns, section) ==
  IF columns = <<>> THEN sectionRow
  ELSE LET col == Head(columns)
           val == SectionValue(col.raw, section)
       IN SectionRowFrom(IF Truthy(val) THEN Put(sectionRow, col.dataKey, val) ELSE sectionRow,
                         Tail(columns), section)

generateSectionRowFromColumnData(t, section) ==
  LET sectionRow == SectionRowFrom(ObjectRow(<<>>), t.columns, section)
  IN IF Len(sectionRow.entries) > 0 THEN sectionRow ELSE Null

(***************************************************************************)
(* parseContent, first loop: the rows and cells of the three sections.     *)
(***************************************************************************)
NoLedger == [i \in {} |-> [left |-> 0, times |-> 0]]

GetTableColumns ==
  /\ pc = "start"
  /\ table' = [table EXCEPT !.columns = getTableColumns(settings)]
  /\ sectionName' = "head"
  /\ pc' = "section"
  /\ UNCHANGED <<settings, scaleFactor, rowIndex, colPos, rowSpansLeftForColumn,
                 skippedRowForRowSpans, colSpansAdded, columnSpansLeft, hookCalls>>

\* the rows of the section, after the synthesis of a head or foot row
SectionRows(s, t, section) ==
  IF Len(s[section]) = 0 /\ s.hasColumns /\ section # "body"
  THEN LET sectionRow == generateSectionRowFromColumnData(t, section)
       IN IF sectionRow # Null THEN Append(s[section], sectionRow) ELSE s[section]
  ELSE s[section]

BeginSection ==
  /\ pc = "section"
  /\ rowSpansLeftForColumn' = NoLedger
  /\ settings' = [settings EXCEPT ![sectionName] = SectionRows(settings, table, sectionName)]
  /\ rowIndex' = 0
  /\ pc' = "row"
  /\ UNCHANGED <<table, scaleFactor, sectionName, colPos, skippedRowForRowSpans,
                 colSpansAdded, columnSpansLeft, hookCalls>>

BeginRow ==
  /\ pc = "row"
  /\ rowIndex < Len(settings[sectionName])
  /\ table' = [table EXCEPT ![sectionName] =
                 Append(@, Row(settings[sectionName][rowIndex + 1], rowIndex, sectionName))]
  /\ skippedRowForRowSpans' = 0
  /\ colSpansAdded' = 0
  /\ columnSpansLeft' = 0
  /\ colPos' = 1
  /\ IF Len(table.columns) = 0
     THEN pc' = "row" /\ rowIndex' = rowIndex + 1
     ELSE pc' = "column" /\ rowIndex' = rowIndex
  /\ UNCHANGED <<settings, scaleFactor, sectionName, rowSpansLeftForColumn, hookCalls>>

\* the end of one iteration of `for (let column of table.columns)`
NextColumn ==
  IF colPos < Len(table.columns)
  THEN colPos' = colPos + 1 /\ UNCHANGED <<pc, rowIndex>>
  ELSE colPos' = 1 /\ pc' = "row" /\ rowIndex' = rowIndex + 1

RowSpanActive(column) ==
  /\ column.index \in DOMAIN rowSpansLeftForColumn
  /\ rowSpansLeftForColumn[column.index].left # 0

\* (mutant) the rows skipped for row spans are not subtracted
RawCellNoSkips(rawRow, column) ==
  IF rawRow.isArray
  THEN Get(rawRow, ToString(column.index - colSpansAdded))
  ELSE Get(rawRow, column.dataKey)

\* rawRow[column.index - colSpansAdded - skippedRowForRowSpans], or rawRow[column.dataKey]
RawCell(rawRow, column) ==
  IF rawRow.isArray
  THEN Get(rawRow, ToString(column.index - colSpansAdded - skippedRowForRowSpans))
  ELSE Get(rawRow, column.dataKey)

\* (mutant) no cell is stored for a missing value
StoreCellIfValue(row, column, cell) ==
  IF cell.raw = Undefined THEN row
  ELSE SetCell(SetCell(row, column.dataKey, column.index, cell),
               ToString(column.index), column.index, cell)

\* row.cells[column.dataKey] = cell; row.cells[column.index] = cell
StoreCell(row, column, cell) ==
  SetCell(SetCell(row, column.dataKey, column.index, cell),
          ToString(column.index), column.index, cell)

\* (mutant) the ledger forgets the colSpan of the cell
SpanEntryNoTimes(cell) == [left |-> cell.rowSpan - 1, times |-> 0]

\* the ledger entry of a new cell: { left: cell.rowSpan - 1, times: columnSpansLeft }
SpanEntry(cell) == [left |-> cell.rowSpan - 1, times |-> cell.colSpan - 1]

SetLedger(ledger, index, entry) ==
  [i \in (DOMAIN ledger) \cup {index} |-> IF i = index THEN entry ELSE ledger[i]]

CreateCell ==
  /\ pc = "column"
  /\ LET column == table.columns[colPos]
         rawRow == settings[sectionName][rowIndex + 1]
         rawCell == RawCell(rawRow, column)
         styles == cellStyles(sectionName, column, rowIndex)
         cell == Cell(rawCell, styles, sectionName)
     IN /\ ~RowSpanActive(column)
        /\ columnSpansLeft = 0
        /\ table' = [table EXCEPT ![sectionName][rowIndex + 1] = StoreCell(@, column, cell)]
        /\ columnSpansLeft' = cell.colSpan - 1
        /\ rowSpansLeftForColumn' =
             SetLedger(rowSpansLeftForColumn, column.index, SpanEntry(cell))
  /\ NextColumn
  /\ UNCHANGED <<settings, scaleFactor, sectionName, skippedRowForRowSpans,
                 colSpansAdded, hookCalls>>

SkipColSpan ==
  /\ pc = "column"
  /\ ~RowSpanActive(table.columns[colPos])
  /\ columnSpansLeft # 0
  /\ columnSpansLeft' = columnSpansLeft - 1
  /\ colSpansAdded' = colSpansAdded + 1
  /\ NextColumn
  /\ UNCHANGED <<settings, table, scaleFactor, sectionName, rowSpansLeftForColumn,
                 skippedRowForRowSpans, hookCalls>>

SkipRowSpan ==
  /\ pc = "column"
  /\ LET column == table.columns[colPos]
     IN /\ RowSpanActive(column)
        /\ rowSpansLeftForColumn' =
             [rowSpansLeftForColumn EXCEPT ![column.index].left = @ - 1]
        /\ columnSpansLeft' = rowSpansLeftForColumn[column.index].times
  /\ skippedRowForRowSpans' = skippedRowForRowSpans + 1
  /\ NextColumn
  /\ UNCHANGED <<settings, table, scaleFactor, sectionName, colSpansAdded, hookCalls>>

EndSection ==
  /\ pc = "row"
  /\ rowIndex >= Len(settings[sectionName])
  /\ IF sectionName = "foot"
     THEN pc' = "cells" /\ sectionName' = sectionName
     ELSE pc' = "section" /\ sectionName' = (IF sectionName = "head" THEN "body" ELSE "foot")
  /\ rowIndex' = 0
  /\ colPos' = 1
  /\ UNCHANGED <<settings, table, scaleFactor, rowSpansLeftForColumn,
                 skippedRowForRowSpans, colSpansAdded, columnSpansLeft, hookCalls>>

(***************************************************************************)
(* parseContent, second loop: hooks and widths of every cell.              *)
(***************************************************************************)
\* table.allRows(): where each row lives
RowsOf(t, section) == [i \in 1..Len(t[section]) |-> [section |-> section, index |-> i - 1]]
allRows(t) == RowsOf(t, "head") \o RowsOf(t, "body") \o RowsOf(t, "foot")

InPass == rowIndex < Len(allRows(table)) /\ Len(table.columns) > 0
PassRef == allRows(table)[rowIndex + 1]
PassRow == table[PassRef.section][PassRef.index + 1]
PassColumn == table.columns[colPos]
PassCellRef == <<PassRef.section, PassRef.index, PassRow.cells[ToString(PassColumn.index)]>>

\* the end of one iteration of `for (let column of table.columns)` in a pass
NextInPass ==
  IF colPos < Len(table.columns)
  THEN colPos' = colPos + 1 /\ rowIndex' = rowIndex
  ELSE colPos' = 1 /\ rowIndex' = rowIndex + 1

\* if (!cell) continue
SkipMissingCell ==
  /\ pc = "cells"
  /\ InPass
  /\ ~HasCell(PassRow, ToString(PassColumn.index))
  /\ NextInPass
  /\ UNCHANGED <<settings, table, scaleFactor, pc, sectionName, rowSpansLeftForColumn,
                 skippedRowForRowSpans, colSpansAdded, columnSpansLeft, hookCalls>>

\* One didParseCell hook: a callback that may set the text or styles of the cell.
ApplyHook(hook, cell) ==
  IF hook.sets = "text" THEN [cell EXCEPT !.text = [isArray |-> FALSE, measure |-> hook.text]]
  ELSE IF hook.sets = "styles" THEN [cell EXCEPT !.styles = assign(@, hook.styles)]
  ELSE cell

\* table.callCellHooks(handlers, cell, row, column)
RECURSIVE callCellHooks(_, _)
callCellHooks(handlers, cell) ==
  IF handlers = <<>> THEN cell
  ELSE callCellHooks(Tail(handlers), ApplyHook(Head(handlers), cell))

Count(calls, ref) == IF ref \in DOMAIN calls THEN calls[ref] ELSE 0

CallCellHooks ==
  /\ pc = "cells"
  /\ InPass
  /\ HasCell(PassRow, ToString(PassColumn.index))
  /\ LET ref == PassCellRef
         cell == PassRow.objects[ref[3]]
     IN /\ table' = [table EXCEPT ![ref[1]][ref[2] + 1].objects[ref[3]] =
                       callCellHooks(table.hooks.didParseCell, cell)]
        /\ hookCalls' = [r \in (DOMAIN hookCalls) \cup {ref} |->
                           IF r = ref THEN Count(hookCalls, ref) + 1 ELSE hookCalls[r]]
  /\ pc' = "widths"
  /\ UNCHANGED <<settings, scaleFactor, sectionName, rowIndex, colPos, rowSpansLeftForColumn,
                 skippedRowForRowSpans, colSpansAdded, columnSpansLeft>>

\* getStringWidth(text, styles): the measured width of the text
getStringWidth(text) == text.measure.w
\* getStringWidth(text.join(' ').split(/\s+/), styles): that of its longest word
LongestWordWidth(text) == text.measure.lw
\* cell.padding('horizontal')
HorizontalPadding(cell) == 2 * cell.styles["cellPadding"].value

\* cell.styles.minCellWidth || defaultMinWidth
MinCellWidth(cell) ==
  IF cell.styles["minCellWidth"].type = "number" /\ cell.styles["minCellWidth"].value # 0
  THEN cell.styles["minCellWidth"].value
  ELSE DefaultMinCellWidth \div scaleFactor

\* (mutant) in auto mode the wrapped width is not raised to the minimum
CellWidthsNotRaised(cell) ==
  LET contentWidth == getStringWidth(cell.text) + HorizontalPadding(cell)
      sized == [cell EXCEPT !.contentWidth = contentWidth,
                            !.minReadableWidth = LongestWordWidth(cell.text) + HorizontalPadding(cell)]
      cellWidth == cell.styles["cellWidth"]
  IN IF cellWidth.type = "number"
     THEN [sized EXCEPT !.minWidth = cellWidth.value, !.wrappedWidth = cellWidth.value]
     ELSE IF cellWidth = Str("wrap")
     THEN [sized EXCEPT !.minWidth = contentWidth, !.wrappedWidth = contentWidth]
     ELSE [sized EXCEPT !.minWidth = MinCellWidth(cell), !.wrappedWidth = contentWidth]

\* the widths of a cell whose text is normalised
CellWidths(cell) ==
  LET contentWidth == getStringWidth(cell.text) + HorizontalPadding(cell)
      sized == [cell EXCEPT !.contentWidth = contentWidth,
                            !.minReadableWidth = LongestWordWidth(cell.text) + HorizontalPadding(cell)]
      cellWidth == cell.styles["cellWidth"]
  IN IF cellWidth.type = "number"
     THEN [sized EXCEPT !.minWidth = cellWidth.value, !.wrappedWidth = cellWidth.value]
     ELSE IF cellWidth = Str("wrap")
     THEN [sized EXCEPT !.minWidth = contentWidth, !.wrappedWidth = contentWidth]
     ELSE LET minWidth == MinCellWidth(cell)
          IN [sized EXCEPT !.minWidth = minWidth,
                           !.wrappedWidth = IF minWidth > contentWidth THEN minWidth
                                            ELSE contentWidth]

\* (mutant) the widths are measured on the text the cell was created with,
\* not on the text the hooks left
ResolveCellAsCreated(cell) ==
  CellWidths([cell EXCEPT !.text = Cell(cell.raw, cell.styles, cell.section).text])

\* lines 229-254: the text as an array of lines, then the widths
ResolveCell(cell) == CellWidths([cell EXCEPT !.text.isArray = TRUE])

ResolveCellWidths ==
  /\ pc = "widths"
  /\ LET ref == PassCellRef
     IN table' = [table EXCEPT ![ref[1]][ref[2] + 1].objects[ref[3]] = ResolveCell(@)]
  /\ NextInPass
  /\ pc' = "cells"
  /\ UNCHANGED <<settings, scaleFactor, sectionName, rowSpansLeftForColumn,
                 skippedRowForRowSpans, colSpansAdded, columnSpansLeft, hookCalls>>

EndCellPass ==
  /\ pc = "cells"
  /\ ~InPass
  /\ pc' = "aggregate"
  /\ rowIndex' = 0
  /\ colPos' = 1
  /\ UNCHANGED <<settings, table, scaleFactor, sectionName, rowSpansLeftForColumn,
                 skippedRowForRowSpans, colSpansAdded, columnSpansLeft, hookCalls>>

(***************************************************************************)
(* parseContent, third loop: the widths of the columns.                    *)
(***************************************************************************)
Max(a, b) == IF a >= b THEN a ELSE b

\* lines 264-288
WidthFromCell(column, row) ==
  LET name == ToString(column.index)
  IN IF HasCell(row, name) /\ CellOf(row, name).colSpan = 1
     THEN LET cell == CellOf(row, name)
          IN [column EXCEPT !.wrappedWidth = Max(@, cell.wrappedWidth),
                            !.minWidth = Max(@, cell.minWidth),
                            !.minReadableWidth = Max(@, cell.minReadableWidth)]
     ELSE LET columnStyles == ColumnStylesOf(column)
          IN IF /\ "cellWidth" \in DOMAIN columnStyles
                /\ columnStyles["cellWidth"].type = "number"
                /\ columnStyles["cellWidth"].value # 0
             THEN [column EXCEPT !.minWidth = columnStyles["cellWidth"].value,
                                 !.wrappedWidth = columnStyles["cellWidth"].value]
             ELSE column

\* lines 290-298
WidthFromSpan(column, row) ==
  LET name == ToString(column.index)
  IN IF HasCell(row, name) /\ CellOf(row, name).colSpan > 1
     THEN LET cell == CellOf(row, name)
          IN [column EXCEPT
                !.minWidth = IF column.minWidth = 0 THEN cell.minWidth ELSE @,
                !.wrappedWidth = IF column.wrappedWidth = 0 THEN cell.minWidth ELSE @]
     ELSE column

AggregateColumn ==
  /\ pc = "aggregate"
  /\ InPass
  /\ table' = [table EXCEPT !.columns[colPos] = WidthFromSpan(WidthFromCell(@, PassRow), PassRow)]
  /\ NextInPass
  /\ UNCHANGED <<settings, scaleFactor, pc, sectionName, rowSpansLeftForColumn,
                 skippedRowForRowSpans, colSpansAdded, columnSpansLeft, hookCalls>>

Finish ==
  /\ pc = "aggregate"
  /\ ~InPass
  /\ pc' = "done"
  /\ UNCHANGED <<settings, table, scaleFactor, sectionName, rowIndex, colPos,
                 rowSpansLeftForColumn, skippedRowForRowSpans, colSpansAdded,
                 columnSpansLeft, hookCalls>>

Next ==
  \/ GetTableColumns
  \/ BeginSection
  \/ BeginRow
  \/ CreateCell
  \/ SkipColSpan
  \/ SkipRowSpan
  \/ EndSection
  \/ SkipMissingCell
  \/ CallCellHooks
  \/ ResolveCellWidths
  \/ EndCellPass
  \/ AggregateColumn
  \/ Finish

(***************************************************************************)
(* Initial states: the call of parseContent with its inputs.               *)
(***************************************************************************)
NoStyleOptions ==
  [styles |-> EmptyStyles, headStyles |-> EmptyStyles, bodyStyles |-> EmptyStyles,
   footStyles |-> EmptyStyles, alternateRowStyles |-> EmptyStyles,
   columnStyles |-> [k \in {} |-> EmptyStyles]]

NoHooks == [didParseCell |-> <<>>]

NoColumn == ColumnDef("", "", Undefined, Undefined)

Start(s, styleOptions, hooks, sf) ==
  /\ settings = s
  /\ table = [columns |-> <<>>, head |-> <<>>, body |-> <<>>, foot |-> <<>>,
              styles |-> styleOptions, hooks |-> hooks]
  /\ scaleFactor = sf
  /\ pc = "start"
  /\ sectionName = "head"
  /\ rowIndex = 0
  /\ colPos = 1
  /\ rowSpansLeftForColumn = NoLedger
  /\ skippedRowForRowSpans = 0
  /\ colSpansAdded = 0
  /\ columnSpansLeft = 0
  /\ hookCalls = [r \in {} |-> 0]

Names == <<"a", "b", "c", "d", "e", "f">>

\* the text of the cell at row i, position j of an input: each has its own measure
Word(i, j) == [w |-> 10 * i + j, lw |-> j]

(***************************************************************************)
(* Grids.  Positional rows under explicit columns, in the body: up to      *)
(* MaxRows rows of up to MaxCols cells, one of the cells (two, in rows of  *)
(* MaxCols cells) with a colSpan or rowSpan of 2.  Rows of a few fixed     *)
(* lengths, up to two of their cells with a span, in the other sections,   *)
(* for keyed rows and for inferred columns.                                *)
(***************************************************************************)
Spans == {<<2, 1>>, <<1, 2>>, <<2, 2>>}
\* the number of cells with a span: up to two in rows of full length and in
\* the rows of fixed lengths, at most one in the other rows
SpannedCells(lens, full) ==
  IF \A i \in 1..Len(lens) : lens[i] \in full THEN 0..2 ELSE 0..1

RowLengths == UNION {[1..k -> 0..MaxCols] : k \in 0..MaxRows}
FixedRowLengths == {<<3, 2>>, <<2, 3>>, <<3, 1, 2>>}

Positions(lens) == UNION {{<<i, j>> : j \in 1..lens[i]} : i \in 1..Len(lens)}
SpannedSets(lens, full) ==
  LET P == Positions(lens)
  IN {S \in {{}} \cup {{p, q} : p, q \in P} : Cardinality(S) \in SpannedCells(lens, full)}

GridCell(spans, i, j) ==
  IF <<i, j>> \in DOMAIN spans
  THEN CellDef(Word(i, j), spans[<<i, j>>][1], spans[<<i, j>>][2], EmptyStyles)
  ELSE Scalar(Word(i, j))

GridRow(lens, spans, i, keyed) ==
  IF keyed
  THEN ObjectRow([j \in 1..lens[i] |-> [key |-> Names[j], value |-> GridCell(spans, i, j)]])
  ELSE ArrayRow([j \in 1..lens[i] |-> GridCell(spans, i, j)])

GridRows(lens, spans, keyed) == [i \in 1..Len(lens) |-> GridRow(lens, spans, i, keyed)]

GridSettings(rows, section, mode, n) ==
  [hasColumns |-> mode # "inferred",
   columns |-> IF mode = "keyed"
               THEN [j \in 1..n |-> ColumnDef(Names[j], "", Undefined, Undefined)]
               ELSE IF mode = "positional" THEN [j \in 1..n |-> NoColumn]
               ELSE <<>>,
   head |-> IF section = "head" THEN rows ELSE <<>>,
   body |-> IF section = "body" THEN rows ELSE <<>>,
   foot |-> IF section = "foot" THEN rows ELSE <<>>,
   theme |-> "plain"]

GridModes == {<<"head", "keyed">>, <<"foot", "positional">>, <<"body", "inferred">>}

InitGrid ==
  \/ \E lens \in RowLengths :
       \E S \in SpannedSets(lens, {MaxCols}) :
         \E spans \in [S -> Spans] :
           Start(GridSettings(GridRows(lens, spans, FALSE), "body", "positional", MaxCols),
                 NoStyleOptions, NoHooks, 1)
  \/ \E lens \in FixedRowLengths :
       \E S \in SpannedSets(lens, 1..3) :
         \E spans \in [S -> Spans] :
           \E m \in GridModes :
             Start(GridSettings(GridRows(lens, spans, m[2] = "keyed"), m[1], m[2], 3),
                   NoStyleOptions, NoHooks, 1)

SpecGrid == InitGrid /\ [][Next]_vars

(***************************************************************************)
(* Properties of the grid.                                                 *)
(***************************************************************************)
\* the cells of a section: <<r, i>> for the cell of row r (1-based) created at column index i
CellsOf(section) ==
  UNION {{<<r, i>> : i \in DOMAIN table[section][r].objects} : r \in 1..Len(table[section])}

CellAt(section, a) == table[section][a[1]].objects[a[2]]

\* the positions <<row, column index>> a cell claims
Claimed(section, a) ==
  {<<r, i>> : r \in a[1]..(a[1] + CellAt(section, a).rowSpan - 1),
              i \in a[2]..(a[2] + CellAt(section, a).colSpan - 1)}

\* the position p is one the cell at a claims
InSpan(section, a, p) ==
  LET cell == CellAt(section, a)
  IN /\ a[1] <= p[1] /\ p[1] < a[1] + cell.rowSpan
     /\ a[2] <= p[2] /\ p[2] < a[2] + cell.colSpan

\* the span of the cell stays inside the section and the column list
Inside(section, a) ==
  LET cell == CellAt(section, a)
  IN /\ a[1] + cell.rowSpan - 1 <= Len(settings[section])
     /\ a[2] + cell.colSpan - 1 < Len(table.columns)

\* no cell created outside the span of the cell claims a position of it
NotOverlapped(section, a) ==
  LET cell == CellAt(section, a)
  IN \A r \in 1..Len(table[section]) :
       \A i \in DOMAIN table[section][r].objects :
          LET other == table[section][r].objects[i]
          IN \/ InSpan(section, a, <<r, i>>)
             \/ r + other.rowSpan <= a[1] \/ a[1] + cell.rowSpan <= r
             \/ i + other.colSpan <= a[2] \/ a[2] + cell.colSpan <= i

IndexSet(section, r) ==
  {i \in 0..(Len(table.columns) - 1) : HasCell(table[section][r], ToString(i))}

\* C1: span conservation.  For every cell whose span overlaps no other
\* cell's span and stays inside the section and the column list, the rows of
\* the section hold no cell under the index of any other position of that
\* span: not in the rows below the anchor row, not to the right of the
\* anchor in the anchor row.
SpanConservation ==
  \A section \in {"head", "body", "foot"} :
    \A a \in CellsOf(section) :
      \A p \in Claimed(section, a) \ {a} :
        (Inside(section, a) /\ NotOverlapped(section, a) /\ p[1] <= Len(table[section]))
          => ~HasCell(table[section][p[1]], ToString(p[2]))

\* a cell with rowSpan 2 and colSpan 2 whose span is respected, and the row
\* below it built with a cell of its own next to the span
SpanConservationWitness ==
  /\ pc = "cells"
  /\ \E a \in CellsOf("body") :
       /\ CellAt("body", a).rowSpan = 2 /\ CellAt("body", a).colSpan = 2
       /\ Inside("body", a) /\ NotOverlapped("body", a)
       /\ Len(table.body) > a[1]
       /\ IndexSet("body", a[1] + 1) = {a[2] + 2}

\* C10: positional rows are consumed densely.  In an array row the k-th
\* cell created (k = 0, 1, ...) is built from rawRow[k], and whenever a column
\* creates a cell, column.index - colSpansAdded - skippedRowForRowSpans is the
\* number of cells the row holds already.
DenseConsumption ==
  /\ \A section \in {"head", "body", "foot"} :
       \A a \in CellsOf(section) :
          LET row == table[section][a[1]]
              k == Cardinality({i \in DOMAIN row.objects : i < a[2]})
          IN row.raw.isArray => CellAt(section, a).raw = Get(row.raw, ToString(k))
  /\ (pc = "column" /\ settings[sectionName][rowIndex + 1].isArray
        /\ ~RowSpanActive(table.columns[colPos]) /\ columnSpansLeft = 0) =>
       (table.columns[colPos].index - colSpansAdded - skippedRowForRowSpans
          = Cardinality(DOMAIN table[sectionName][rowIndex + 1].objects))

\* an array row below a row span and after a column span, whose second
\* cell has been created from its second element
DenseConsumptionWitness ==
  /\ pc = "row"
  /\ sectionName = "body"
  /\ rowIndex = 2
  /\ skippedRowForRowSpans > 0
  /\ colSpansAdded > 0
  /\ LET row == table.body[2]
     IN /\ row.raw.isArray
        /\ Cardinality(DOMAIN row.objects) = 2
        /\ \E i \in DOMAIN row.objects : i >= 2 /\ row.objects[i].raw = Get(row.raw, "1")

\* the position is claimed by the span of a cell created elsewhere
Covered(section, r, i) ==
  \E q \in 1..r :
    \E j \in DOMAIN table[section][q].objects :
       j <= i /\ <<q, j>> # <<r, i>> /\ InSpan(section, <<q, j>>, <<r, i>>)

\* the loop over the columns has passed column index i of row r
Visited(section, r, i) ==
  ~(pc = "column" /\ section = sectionName /\ r = rowIndex + 1 /\ i >= colPos - 1)

\* the row has no value for the column: a keyed row without the dataKey, an
\* array row with no element left for it
MissingValue(section, r, column) ==
  LET row == table[section][r]
      used == Cardinality({i \in DOMAIN row.objects : i < column.index})
  IN IF row.raw.isArray
     THEN Get(row.raw, ToString(used)) = Undefined
     ELSE Get(row.raw, column.dataKey) = Undefined

CoveringCells(column) ==
  UNION {{CellAt(section, a) : a \in {b \in CellsOf(section) :
             /\ b[2] <= column.index
             /\ column.index < b[2] + CellAt(section, b).colSpan}}
         : section \in {"head", "body", "foot"}}

HasFixedWidth(column) ==
  LET columnStyles == ColumnStylesOf(column)
  IN /\ "cellWidth" \in DOMAIN columnStyles
     /\ columnStyles["cellWidth"].type = "number"

\* C6 as claimed: after the aggregation a column without a width from a
\* colSpan 1 cell and without a fixed cellWidth in columnStyles, but covered by
\* a cell, has the minWidth of a covering cell as its minWidth and
\* wrappedWidth, and is not left at zero.
SpannedColumnsSized ==
  pc = "done" =>
    \A c \in 1..Len(table.columns) :
      LET column == table.columns[c]
          covering == CoveringCells(column)
      IN ((\A cell \in covering : cell.colSpan > 1) /\ covering # {}
            /\ ~HasFixedWidth(column)) =>
           /\ \E cell \in covering :
                column.minWidth = cell.minWidth /\ column.wrappedWidth = cell.minWidth
           /\ column.minWidth # 0
           /\ column.wrappedWidth # 0

(***************************************************************************)
(* Styles: one table with a synthesised head and foot and three body rows, *)
(* under every theme and every choice of the user's style layers.          *)
(***************************************************************************)
Fill(layer) == [fillColor |-> Str(layer)]

StyledColumns ==
  <<ColumnDef("a", "", Scalar(Word(0, 1)), Undefined),
    ColumnDef("", "", Undefined, Scalar(Word(0, 2)))>>

StyledBody ==
  <<ArrayRow(<<CellDef(Word(1, 1), 0, 2, EmptyStyles), Scalar(Word(1, 2))>>),
    ArrayRow(<<Scalar(Word(2, 1))>>),
    ArrayRow(<<CellDef(Word(3, 1), 2, 0, EmptyStyles)>>)>>

StyledSettings(theme) ==
  [hasColumns |-> TRUE, columns |-> StyledColumns,
   head |-> <<>>, body |-> StyledBody, foot |-> <<>>, theme |-> theme]

\* the columnStyles: an entry, or none, under each of a set of property names
ColumnStyleChoices ==
  {[k \in K |-> IF k = "a" THEN e ELSE Fill("columnStyles." \o k)] :
     K \in SUBSET {"a", "0", "1"}, e \in {EmptyStyles, Fill("columnStyles.a")}}

StyleOptionChoices ==
  [styles : {EmptyStyles, Fill("styles"), [minCellWidth |-> Num(7)]},
   headStyles : {EmptyStyles, Fill("headStyles")},
   bodyStyles : {EmptyStyles, Fill("bodyStyles")},
   footStyles : {EmptyStyles, Fill("footStyles")},
   alternateRowStyles : {EmptyStyles, Fill("alternateRowStyles"), [cellPadding |-> Num(2)]},
   columnStyles : ColumnStyleChoices]

InitStyles ==
  \E theme \in DOMAIN Themes :
    \E styleOptions \in StyleOptionChoices :
      Start(StyledSettings(theme), styleOptions, NoHooks, 1)

SpecStyles == InitStyles /\ [][Next]_vars

\* the style layers of a cell, in increasing precedence, as C3 lists them
StyleLayers(section, column, index) ==
  LET theme == getTheme(settings.theme)
      user == table.styles
      byKey == column.dataKey \in DOMAIN user.columnStyles
      byIndex == ToString(column.index) \in DOMAIN user.columnStyles
  IN <<defaultStyles, theme.table, theme[section], user.styles,
       IF section = "head" THEN user.headStyles
       ELSE IF section = "body" THEN user.bodyStyles ELSE user.footStyles>>
     \o (IF section = "body" /\ index % 2 = 0
         THEN <<theme.alternateRow, user.alternateRowStyles>> ELSE <<>>)
     \o (IF section = "body" /\ byKey THEN <<user.columnStyles[column.dataKey]>>
         ELSE IF section = "body" /\ byIndex
         THEN <<user.columnStyles[ToString(column.index)]>>
         ELSE <<>>)

Setting(layers, p) == {k \in 1..Len(layers) : p \in DOMAIN layers[k]}
Last(S) == CHOOSE k \in S : \A j \in S : j <= k

\* C3: the styles a cell is created with are, property by property, those of
\* the last layer that sets the property, the layers being the default styles,
\* the theme's table and section styles, the user's styles and section
\* styles, on even body rows the theme's alternateRow and the user's
\* alternateRowStyles, and in the body the column's styles (the columnStyles
\* entry under the dataKey, else the one under the index).
StyleCascade ==
  \A section \in {"head", "body", "foot"} :
    \A a \in CellsOf(section) :
      LET cell == CellAt(section, a)
          layers == StyleLayers(section, table.columns[a[2] + 1], a[1] - 1)
      IN /\ DOMAIN cell.styles = UNION {DOMAIN layers[k] : k \in 1..Len(layers)}
         /\ \A p \in DOMAIN cell.styles : cell.styles[p] = layers[Last(Setting(layers, p))][p]

\* alternateRowStyles and columnStyles both set the fill colour: the cell of
\* the even body row 0 takes the column's, that of row 2 too, that of the odd
\* row 1 takes the column's under its index, and the head and foot cells take
\* neither
StyleCascadeWitness ==
  /\ pc = "done"
  /\ table.styles.alternateRowStyles = Fill("alternateRowStyles")
  /\ table.styles.bodyStyles = Fill("bodyStyles")
  /\ "a" \in DOMAIN table.styles.columnStyles
  /\ "1" \in DOMAIN table.styles.columnStyles
  /\ table.body[1].objects[0].styles["fillColor"] = Str("columnStyles.a")
  /\ table.body[3].objects[0].styles["fillColor"] = Str("columnStyles.a")
  /\ table.body[2].objects[1].styles["fillColor"] = Str("columnStyles.1")
  /\ table.head[1].objects[0].styles["fillColor"] = Str("striped.head")
  /\ table.foot[1].objects[1].styles["fillColor"] = Str("striped.foot")

(***************************************************************************)
(* Widths: tables of two columns whose cells are narrow or wide, with      *)
(* every width mode set by the user's styles, by a cell or by a hook.      *)
(***************************************************************************)
Narrow == [w |-> 2, lw |-> 2]
Wide == [w |-> 100, lw |-> 30]

WidthColumns == <<ColumnDef("x", "", Undefined, Undefined), NoColumn>>

WidthRows ==
  {ArrayRow(<<Scalar(Narrow), Scalar(Wide)>>),
   ArrayRow(<<CellDef(Wide, 2, 0, EmptyStyles)>>),
   ArrayRow(<<CellDef(Narrow, 0, 2, EmptyStyles),
              CellDef(Narrow, 0, 0, [cellWidth |-> Str("wrap")])>>),
   ArrayRow(<<CellDef(Wide, 0, 0, [cellWidth |-> Num(30)])>>)}

WidthBodies == UNION {[1..k -> WidthRows] : k \in 1..MaxRows}

WidthStyles ==
  {EmptyStyles, [cellWidth |-> Str("wrap")], [cellWidth |-> Num(20)],
   [minCellWidth |-> Num(50)]}

TextHook(t) == [sets |-> "text", text |-> t]
StylesHook(st) == [sets |-> "styles", styles |-> st]

WidthHooks ==
  {<<>>, <<TextHook(Wide)>>, <<StylesHook([cellWidth |-> Num(25)]), TextHook(Narrow)>>,
   <<TextHook(Wide), StylesHook([minCellWidth |-> Num(60), cellWidth |-> Str("auto")])>>}

InitWidths ==
  \E head \in {<<>>, <<ArrayRow(<<Scalar(Wide), Scalar(Narrow)>>)>>} :
    \E body \in WidthBodies :
      \E styles \in WidthStyles :
        \E hooks \in WidthHooks :
          \E sf \in {1, 5} :
            Start([hasColumns |-> TRUE, columns |-> WidthColumns, head |-> head,
                   body |-> body, foot |-> <<>>, theme |-> "striped"],
                  [NoStyleOptions EXCEPT !.styles = styles],
                  [didParseCell |-> hooks], sf)

SpecWidths == InitWidths /\ [][Next]_vars

\* every cell: <<section, row index, index of its column>>
AllCells ==
  UNION {{<<section, a[1] - 1, a[2]>> : a \in CellsOf(section)}
         : section \in {"head", "body", "foot"}}
CellObject(ref) == table[ref[1]][ref[2] + 1].objects[ref[3]]

\* C4: every cell has minWidth <= wrappedWidth, before and after its widths
\* are computed, in each width mode.
MinWidthAtMostWrappedWidth ==
  \A ref \in AllCells : CellObject(ref).minWidth <= CellObject(ref).wrappedWidth

\* the three modes have been resolved, auto with a content narrower than the
\* explicit minimum: the wrapped width is raised to it
MinWidthAtMostWrappedWidthWitness ==
  /\ pc = "done"
  /\ \E ref \in AllCells :
       /\ CellObject(ref).styles["cellWidth"] = Str("auto")
       /\ CellObject(ref).styles["minCellWidth"] = Num(50)
       /\ CellObject(ref).contentWidth < 50
       /\ CellObject(ref).minWidth = 50
       /\ CellObject(ref).wrappedWidth = 50
  /\ \E ref \in AllCells :
       /\ CellObject(ref).styles["cellWidth"] = Str("wrap")
       /\ CellObject(ref).minWidth = CellObject(ref).contentWidth
  /\ \E ref \in AllCells :
       /\ CellObject(ref).styles["cellWidth"] = Num(30)
       /\ CellObject(ref).wrappedWidth = 30

\* what the registered hooks leave of the text and of a style of a cell
TextHooks == {k \in 1..Len(table.hooks.didParseCell) : table.hooks.didParseCell[k].sets = "text"}
StyleHooks(p) ==
  {k \in 1..Len(table.hooks.didParseCell) :
     /\ table.hooks.didParseCell[k].sets = "styles"
     /\ p \in DOMAIN table.hooks.didParseCell[k].styles}

WidthsOf(cell) == <<cell.contentWidth, cell.minReadableWidth, cell.minWidth, cell.wrappedWidth>>

Unsized(column) ==
  column.minWidth = 0 /\ column.wrappedWidth = 0 /\ column.minReadableWidth = 0

\* the hooks have run for the cell and its widths have been computed
Resolved(ref) ==
  Count(hookCalls, ref) = 1 /\ ~(pc = "widths" /\ ref = PassCellRef)

\* C9: the didParseCell hooks run once for every cell, before its text is
\* normalised and its widths are computed, so that the widths are those of the
\* text and styles the hooks left; and they have run for every cell before the
\* first column width is aggregated.
HooksBeforeWidths ==
  /\ DOMAIN hookCalls \subseteq AllCells
  /\ \A ref \in AllCells :
       LET cell == CellObject(ref)
           n == Count(hookCalls, ref)
       IN /\ n <= 1
          /\ n = 0 => (WidthsOf(cell) = <<0, 0, 0, 0>> /\ pc \notin {"aggregate", "done"})
          /\ ~Resolved(ref) => \A c \in 1..Len(table.columns) : Unsized(table.columns[c])
          /\ n = 1 =>
               /\ TextHooks # {} => cell.text.measure = table.hooks.didParseCell[Last(TextHooks)].text
               /\ \A p \in StyleProps : StyleHooks(p) # {} =>
                    cell.styles[p] = table.hooks.didParseCell[Last(StyleHooks(p))].styles[p]
          /\ Resolved(ref) =>
               /\ cell.text.isArray
               /\ cell.contentWidth = cell.text.measure.w + HorizontalPadding(cell)
               /\ cell.minReadableWidth = cell.text.measure.lw + HorizontalPadding(cell)
               /\ cell.styles["cellWidth"].type = "number" =>
                    (cell.minWidth = cell.styles["cellWidth"].value
                       /\ cell.wrappedWidth = cell.styles["cellWidth"].value)
               /\ cell.styles["cellWidth"] = Str("wrap") =>
                    (cell.minWidth = cell.contentWidth /\ cell.wrappedWidth = cell.contentWidth)
               /\ cell.styles["cellWidth"] = Str("auto") =>
                    (cell.minWidth = MinCellWidth(cell)
                       /\ cell.wrappedWidth = Max(cell.contentWidth, cell.minWidth))

\* a hook has replaced the narrow text of a cell by a wide one and fixed the
\* width of the cell: the cell is as wide as the hook says, and the columns
\* were sized after the hooks of every cell
HooksBeforeWidthsWitness ==
  /\ pc = "done"
  /\ Len(table.hooks.didParseCell) = 2
  /\ \A ref \in AllCells : Count(hookCalls, ref) = 1
  /\ \E ref \in AllCells :
       /\ CellObject(ref).raw.kind = "scalar"
       /\ CellObject(ref).raw.content = Narrow
       /\ CellObject(ref).text.measure = Wide
       /\ CellObject(ref).contentWidth = 100 + HorizontalPadding(CellObject(ref))
       /\ CellObject(ref).minWidth = 60
  /\ \E c \in 1..Len(table.columns) : table.columns[c].minWidth = 60

(***************************************************************************)
(* Fixed column widths: tables of two columns with a numeric cellWidth in  *)
(* the columnStyles of one or both, and narrow or wide cells in the head,  *)
(* the body and the foot.                                                  *)
(***************************************************************************)
FixedWidth == [cellWidth |-> Num(40)]

FixedWidthChoices ==
  {[k \in K |-> FixedWidth] : K \in {{"x"}, {"0"}, {"x", "1"}}}

PlainRows ==
  {ArrayRow(<<Scalar(Narrow), Scalar(Wide)>>),
   ArrayRow(<<Scalar(Wide), Scalar(Narrow)>>)}

SpanRows ==
  {ArrayRow(<<CellDef(Wide, 2, 0, EmptyStyles)>>),
   ArrayRow(<<CellDef(Narrow, 0, 2, EmptyStyles), Scalar(Narrow)>>)}

InitFixedWidths ==
  \E head \in {<<>>} \cup {<<r>> : r \in PlainRows} :
    \E body \in UNION {[1..k -> PlainRows \cup SpanRows] : k \in 0..MaxRows} :
      \E foot \in {<<>>} \cup {<<r>> : r \in PlainRows} :
        \E columnStyles \in FixedWidthChoices :
          Start([hasColumns |-> TRUE, columns |-> WidthColumns, head |-> head,
                 body |-> body, foot |-> foot, theme |-> "plain"],
                [NoStyleOptions EXCEPT !.columnStyles = columnStyles], NoHooks, 1)

SpecFixedWidths == InitFixedWidths /\ [][Next]_vars

\* C2 as claimed: after parseContent a column whose columnStyles entry (under
\* its dataKey, else under its index) sets a numeric cellWidth has exactly
\* that minWidth and wrappedWidth.
FixedColumnWidth ==
  pc = "done" =>
    \A c \in 1..Len(table.columns) :
      LET column == table.columns[c]
      IN HasFixedWidth(column) =>
           /\ column.minWidth = ColumnStylesOf(column)["cellWidth"].value
           /\ column.wrappedWidth = ColumnStylesOf(column)["cellWidth"].value

(***************************************************************************)
(* Columns: every list of up to MaxCols of four column descriptors, with   *)
(* and without a head and a foot given.                                    *)
(***************************************************************************)
Title(n) == Scalar([w |-> 40 + n, lw |-> 20])

Descriptors ==
  {ColumnDef("a", "", Title(1), Title(2)),
   ColumnDef("", "b", Title(3), Undefined),
   ColumnDef("", "", Undefined, Title(4)),
   ColumnDef("a", "b", Undefined, Undefined)}

SectionChoices == {<<>>, <<ArrayRow(<<Scalar(Narrow), Scalar(Wide)>>)>>}

ColumnsBody ==
  <<ArrayRow(<<CellDef(Narrow, 0, 2, EmptyStyles), CellDef(Wide, 2, 0, EmptyStyles)>>),
    ArrayRow(<<Scalar(Narrow)>>)>>

InitColumns ==
  \E columns \in UNION {[1..n -> Descriptors] : n \in 0..MaxCols} :
    \E head \in SectionChoices :
      \E foot \in SectionChoices :
        Start([hasColumns |-> TRUE, columns |-> columns, head |-> head,
               body |-> ColumnsBody, foot |-> foot, theme |-> "plain"],
              NoStyleOptions, NoHooks, 1)

SpecColumns == InitColumns /\ [][Next]_vars

\* the columns whose descriptor carries the header (head) or footer (foot)
Carriers(section) ==
  {c \in 1..Len(table.columns) :
     IF section = "head" THEN Truthy(table.columns[c].raw.header)
     ELSE Truthy(table.columns[c].raw.footer)}

Carried(section, c) ==
  IF section = "head" THEN table.columns[c].raw.header ELSE table.columns[c].raw.footer

RowKeys(row) == {row.entries[i].key : i \in 1..Len(row.entries)}

\* the row is keyed and holds the given value under the dataKey of each of
\* the given columns (the value of the last of them, where dataKeys are
\* shared) and nothing else
HoldsExactly(row, columns, value(_)) ==
  /\ ~row.isArray
  /\ Len(row.entries) = Cardinality(RowKeys(row))
  /\ RowKeys(row) = {table.columns[c].dataKey : c \in columns}
  /\ \A c \in columns :
       (\A d \in columns : table.columns[d].dataKey = table.columns[c].dataKey => d <= c)
         => Get(row, table.columns[c].dataKey) = value(c)

FirstCells == {Scalar(Wide), CellDef(Wide, 2, 0, EmptyStyles)}
FirstKeys == <<"a", "a_1", "b">>

\* the subsequence of the keys at the positions K, with the given values
RECURSIVE KeyedEntries(_, _, _)
KeyedEntries(K, values, from) ==
  IF from > Len(FirstKeys) THEN <<>>
  ELSE (IF from \in K THEN <<[key |-> FirstKeys[from], value |-> values[from]]>> ELSE <<>>)
       \o KeyedEntries(K, values, from + 1)

FirstRows ==
  {ObjectRow(KeyedEntries(K, values, 1)) :
     K \in SUBSET (1..Len(FirstKeys)), values \in [1..Len(FirstKeys) -> FirstCells]}
  \cup UNION {{ArrayRow(cells) : cells \in [1..n -> FirstCells]} : n \in 0..MaxCols}

MoreRows ==
  <<ArrayRow(<<CellDef(Narrow, 0, 2, EmptyStyles), Scalar(Narrow)>>),
    ArrayRow(<<Scalar(Narrow)>>)>>

InitInferred ==
  \E first \in FirstRows :
    \E section \in {"head", "body", "foot"} :
      Start([hasColumns |-> FALSE, columns |-> <<>>,
             head |-> IF section = "head" THEN <<first>> \o MoreRows ELSE <<>>,
             body |-> IF section = "body" THEN <<first>> \o MoreRows ELSE <<>>,
             foot |-> IF section = "foot" THEN <<first>> \o MoreRows ELSE <<>>,
             theme |-> "plain"],
            NoStyleOptions, NoHooks, 1)

SpecInferred == InitInferred /\ [][Next]_vars

\* C8 as claimed: the i-th column of the list getTableColumns returns has
\* index i, and no two columns have the same dataKey.
ColumnsIndexedAndDistinct ==
  pc # "start" =>
    /\ \A i \in 1..Len(table.columns) : table.columns[i].index = i - 1
    /\ \A i, j \in 1..Len(table.columns) :
         i # j => table.columns[i].dataKey # table.columns[j].dataKey

Init == InitGrid \/ InitStyles \/ InitWidths \/ InitFixedWidths \/ InitColumns \/ InitInferred

Spec == Init /\ [][Next]_vars

====
